---- MODULE Spec2Model ----
(***************************************************************************)
(* NotificationService (src/src/services/notification.py): composition of  *)
(* notification payloads under the recipient's locale, dispatch to the     *)
(* remote delivery service, persistence of the delivery records, and the   *)
(* alert fan-out loops.                                                    *)
(*                                                                         *)
(* Python values are modelled as follows.  A dict is a function whose      *)
(* domain is the set of its keys, so d.get(k, default) is Get(d, k,        *)
(* default).  None is the string "None" where it stands for a user id.     *)
(* A call's return value is a record [kind, value].  datetime.now() is the *)
(* logical clock `now`, which advances on each read.                       *)
(***************************************************************************)
EXTENDS Integers, Sequences, FiniteSets, TLC

\* The most send and bulk_send calls the callers of one behaviour make.
MaxCalls == 2

\* The most alert fan-outs the caller of one behaviour makes.
MaxFanOuts == 1

\* ------------------------------------------------------------------------
\* The environment: callers, languages, the user directory, alert addresses

Callers == {"A", "B"}

Locales == {"en", "fr", "de"}

None == "None"

\* The rows of the users table, in primary-key order.
Users == << [id |-> "1", email |-> "a@x.com", phone |-> "+100", locale |-> "fr",
              groups |-> {"SY_CREDIT_OFFICER_SUPERIOR"}],
            [id |-> "2", email |-> "b@x.com", phone |-> "+200", locale |-> "",
              groups |-> {"SY_CREDIT_OFFICER_SUPERIOR", "ADMIN"}],
            [id |-> "3", email |-> "c@x.com", phone |-> "+300", locale |-> "de",
              groups |-> {}] >>

\* An alert address has a user (a position in Users) or none (0), and an
\* e-mail of its own.
AlertOfUser == [user |-> 1, email |-> "ops@x.com"]
AlertAlone == [user |-> 0, email |-> "n@x.com"]

\* The contents the alert address table may have.
AlertTables == { << >>, << AlertOfUser >>, << AlertOfUser, AlertAlone >>,
                 << AlertAlone, AlertOfUser >> }

\* Strings a caller passes as recipient: the empty one, the e-mails of the
\* three users, the phone of the first, and an address nobody has.
Recipients == {"", "a@x.com", "b@x.com", "c@x.com", "+100", "n@x.com"}

\* Ids the remote service assigns to a notification.
Ids == {"42", "43"}

\* A rendered template is the text of its language.
Rendered == [en |-> "Hello", fr |-> "Bonjour", de |-> "Hallo"]

\* d.get(k, default)
Get(d, k, default) == IF k \in DOMAIN d THEN d[k] ELSE default

\* str.upper() on the delivery methods
Upper(s) ==
  CASE s = "email" -> "EMAIL"
    [] s = "sms" -> "SMS"
    [] s = "push" -> "PUSH"
    [] OTHER -> s

\* The least element of a non-empty set of integers
Min(S) == CHOOSE x \in S : \A y \in S : x <= y

\* The empty dict
EmptyDict == [k \in {} |-> ""]

\* The position in Users of the first user matching email=value or
\* phone=value, 0 when there is none:
\* User.objects.filter(Q(email=value) | Q(phone=value)).first()
UserByEmailOrPhone(value) ==
  LET hits == {i \in 1..Len(Users) :
                 Users[i].email = value \/ Users[i].phone = value}
  IN IF hits = {} THEN 0 ELSE Min(hits)

\* The language set_locale activates for recipient `value`, or "" when it
\* returns without activating: no such user, or a user with no locale.
LocaleOf(value) ==
  LET u == UserByEmailOrPhone(value)
  IN IF value = "" \/ u = 0 THEN "" ELSE Users[u].locale

\* _get_user_by(method, data): the id of the first user whose phone (SMS) or
\* email (EMAIL) is data; None for any other method or when no user matches.
\* Notification.TYPE_SMS and Notification.TYPE_EMAIL are "SMS" and "EMAIL".
GetUserBy(method, data) ==
  IF method \notin {"SMS", "EMAIL"} THEN None
  ELSE LET hits == {i \in 1..Len(Users) :
                      IF method = "SMS" THEN Users[i].phone = data
                                        ELSE Users[i].email = data}
       IN IF hits = {} THEN None ELSE Users[Min(hits)].id

VARIABLES
  alerts,     \* the rows of the NomenclatureAlertAddress table
  locale,     \* the active language: translation.get_language()
  LOCALE,     \* self.LOCALE of each caller's service object
  store,      \* the rows of the Notification table
  now,        \* the clock read by datetime.now()
  calls,      \* top-level operations started so far
  pc,         \* each caller's position in the code
  frame,      \* the running top-level operation and its loop state
  kw,         \* the keyword arguments of the running send
  payload,    \* send's local `payload`
  metadata,   \* send's local `metadata`
  response,   \* the local `response` of send and bulk_send
  result,     \* what the finished call returned or raised
  hist,       \* history of the running call, for the properties
  written,    \* history: what _save was given, in the order of the upserts
  activator   \* history: the caller whose call activated the language last

vars == << alerts, locale, LOCALE, store, now, calls, pc, frame, kw, payload,
           metadata, response, result, hist, written, activator >>


\* ------------------------------------------------------------------------
\* Payload composition

\* get_template(path, payload) under the active language `loc`
GetTemplate(loc) == Rendered[loc]

\* _set_method_payload raises when the template cannot be rendered
ComposeRaises(k) == k.html = "bad"

\* _set_method_payload(**k), evaluated while `loc` is the active language
SetMethodPayload(k, loc) ==
  LET body == IF k.html # "" THEN GetTemplate(loc)
              ELSE IF k.text # "" THEN k.text
              ELSE k.body
      base == [is_internal_recipient |-> k.internal,
               recipient |-> k.recipient,
               delivery_method |-> k.method,
               message_subject |-> k.subject,
               message_body |-> body]
  IN IF k.sender # "" THEN base @@ [sender |-> k.sender] ELSE base

\* send, lines 125-127: a non-empty metadata gets title and description
\* stringified; str(None) is "None"
FormMetadata(m) ==
  IF m = EmptyDict THEN m
  ELSE [title |-> Get(m, "title", "None"),
        description |-> Get(m, "description", "None")]

\* ------------------------------------------------------------------------
\* Persistence

\* self.unique_identifier, the single identifier, in the place of the list
UniqueIdentifierAlone == {"code_name"}

\* self.unique_identifiers
UniqueIdentifiers == {"code_name", "type", "target_id"}

\* _save without the upper-casing of the type
SaveOutputTypeAsSent(resp, meta, t1, t2) ==
  LET delivery_method == Upper(Get(resp, "delivery_method", "email"))
  IN [title |-> Get(resp, "message_subject", ""),
      description |-> Get(resp, "message_body", ""),
      read |-> Get(resp, "is_read", FALSE),
      timestamp |-> Get(resp, "created_at", t1),
      edited_timestamp |-> Get(resp, "modified_at", t2),
      target_id |-> GetUserBy(delivery_method, Get(resp, "recipient", "")),
      user_id |-> GetUserBy(delivery_method, Get(resp, "sender", "")),
      code_name |-> Get(resp, "id", ""),
      type |-> Get(resp, "delivery_method", "email"),
      data |-> resp,
      status |-> "NOTIFIED",
      metadata |-> meta]

\* The row _save builds from a response, the two clock reads being t1, t2
SaveOutput(resp, meta, t1, t2) ==
  LET delivery_method == Upper(Get(resp, "delivery_method", "email"))
  IN [title |-> Get(resp, "message_subject", ""),
      description |-> Get(resp, "message_body", ""),
      read |-> Get(resp, "is_read", FALSE),
      timestamp |-> Get(resp, "created_at", t1),
      edited_timestamp |-> Get(resp, "modified_at", t2),
      target_id |-> GetUserBy(delivery_method, Get(resp, "recipient", "")),
      user_id |-> GetUserBy(delivery_method, Get(resp, "sender", "")),
      code_name |-> Get(resp, "id", ""),
      type |-> Upper(Get(resp, "delivery_method", "email")),
      data |-> resp,
      status |-> "NOTIFIED",
      metadata |-> meta]

\* Two rows agree on every unique identifier
SameKey(r, data) == \A f \in UniqueIdentifiers : r[f] = data[f]

\* StorageService.upsert(data): the row matching data on the unique
\* identifiers is overwritten, and data is inserted when there is none.  It
\* is one atomic step that returns the row and does not raise.
Upsert(st, data) ==
  LET found == {r \in st : SameKey(r, data)}
  IN IF found = {} THEN st \cup {data}
     ELSE (st \ {CHOOSE r \in found : TRUE}) \cup {data}

\* ------------------------------------------------------------------------
\* Inputs

\* Keyword arguments of send
Kwargs(recipients, dumps, methods, bodies, metas, senders) ==
  { [recipient |-> r, dump |-> d, method |-> m, subject |-> "Hi",
     body |-> b.body, text |-> b.text, html |-> b.html,
     internal |-> FALSE, metadata |-> md, sender |-> s] :
    r \in recipients, d \in dumps, m \in methods, b \in bodies,
    md \in metas, s \in senders }

\* Body sources: a raw body, a text template over a raw body, an html
\* template over a text, an html template that fails to render
BodyRaw == [body |-> "Raw", text |-> "", html |-> ""]
BodyText == [body |-> "Raw", text |-> "Text", html |-> ""]
BodyHtml == [body |-> "", text |-> "Text", html |-> "ok"]
BodyBad == [body |-> "", text |-> "", html |-> "bad"]

NoKwargs == [recipient |-> "", dump |-> FALSE, method |-> "email",
             subject |-> "", body |-> "", text |-> "", html |-> "",
             internal |-> FALSE, metadata |-> EmptyDict, sender |-> ""]

NoFrame == [op |-> "", i |-> 0, j |-> 0, alerts |-> << >>, args |-> NoKwargs,
            batch |-> << >>, notifications |-> << >>, elements |-> << >>]

\* The history of a call: the language active at its entry and at its
\* composition, who had activated that, its POSTs and their exception, what
\* it gave to _save, the table at its entry; of a fan-out: the batch it was
\* given, the recipients sent to, the outcomes, the batches bulk-sent
NoHist == [entry |-> "", under |-> "", by |-> "", posts |-> 0, err |-> "",
           saves |-> << >>, before |-> {}, orig |-> << >>, sends |-> << >>,
           outs |-> << >>, bulks |-> << >>]

NoResult == [kind |-> "", value |-> EmptyDict]

\* What a call hands back: a return value, or an exception
Returned(kind, value) == [kind |-> kind, value |-> value]
ReturnedNone == [kind |-> "None", value |-> EmptyDict]
Raised(what) == [kind |-> "raise", value |-> what]

InitWith(tables, languages) ==
  /\ alerts \in tables
  /\ locale \in languages
  /\ LOCALE = [c \in Callers |-> locale]
  /\ store = {}
  /\ now = 0
  /\ calls = 0
  /\ pc = [c \in Callers |-> "idle"]
  /\ frame = [c \in Callers |-> NoFrame]
  /\ kw = [c \in Callers |-> NoKwargs]
  /\ payload = [c \in Callers |-> EmptyDict]
  /\ metadata = [c \in Callers |-> EmptyDict]
  /\ response = [c \in Callers |-> EmptyDict]
  /\ result = [c \in Callers |-> NoResult]
  /\ hist = [c \in Callers |-> NoHist]
  /\ written = << >>
  /\ activator = ""

\* No alert addresses are configured; any language is active
Init == InitWith({<< >>}, Locales)

\* Any of the alert address tables is configured; any language is active
InitAlert == InitWith(AlertTables, Locales)

\* No alert addresses are configured; English is active
InitConc == InitWith({<< >>}, {"en"})


\* ------------------------------------------------------------------------
\* The remote delivery service

\* make_request(method='post') either answers or raises: a ValidationError
\* when the service rejects the request, any other exception (here
\* "TransportError") when the request does not get through.
\* What a successful POST of one payload answers: the notification it
\* queued, under an id of its choice
RemoteNotification(p, id) ==
  [f \in (DOMAIN p \ {"is_internal_recipient"}) \cup {"id"} |->
     IF f = "id" THEN id ELSE p[f]]

\* ------------------------------------------------------------------------
\* send(**kwargs)

\* Control enters send with keyword arguments k
EnterSend(c, k) ==
  /\ kw' = [kw EXCEPT ![c] = k]
  /\ pc' = [pc EXCEPT ![c] = "L113"]
  /\ payload' = [payload EXCEPT ![c] = EmptyDict]
  /\ metadata' = [metadata EXCEPT ![c] = EmptyDict]
  /\ response' = [response EXCEPT ![c] = EmptyDict]
  /\ result' = [result EXCEPT ![c] = NoResult]

\* send leaves with outcome r
ExitSend(c, r) ==
  /\ pc' = [pc EXCEPT ![c] = "send_exit"]
  /\ result' = [result EXCEPT ![c] = r]

\* The history of a send or bulk_send that starts now, after history h
CallHist(h) ==
  [h EXCEPT !.entry = locale, !.under = "", !.by = "", !.posts = 0,
            !.err = "", !.saves = << >>, !.before = store]

\* A caller calls send
CallSend(c, K) ==
  /\ pc[c] = "idle"
  /\ calls < MaxCalls
  /\ \E k \in K : EnterSend(c, k)
  /\ calls' = calls + 1
  /\ frame' = [frame EXCEPT ![c] = [NoFrame EXCEPT !.op = "send"]]
  /\ hist' = [hist EXCEPT ![c] = CallHist(NoHist)]
  /\ UNCHANGED << alerts, activator, written, locale, LOCALE, store, now >>

\* lines 113-115: with a recipient, remember the active language
SaveLocale(c) ==
  /\ pc[c] = "L113"
  /\ IF kw[c].recipient # ""
       THEN /\ LOCALE' = [LOCALE EXCEPT ![c] = locale]
            /\ pc' = [pc EXCEPT ![c] = "L118"]
       ELSE /\ pc' = [pc EXCEPT ![c] = "L122"]
            /\ UNCHANGED LOCALE
  /\ UNCHANGED << alerts, activator, written, locale, store, now, calls, frame, kw, payload, metadata,
                  response, result, hist >>

\* Line 118 without the activation
SetLocaleSkipped(c) ==
  /\ pc[c] = "L118"
  /\ pc' = [pc EXCEPT ![c] = "L122"]
  /\ UNCHANGED << alerts, activator, written, locale, LOCALE, store, now,
                  calls, frame, kw, payload, metadata, response, result,
                  hist >>

\* set_locale(value=recipient): activate the language of the user found
SetLocale(c) ==
  /\ pc[c] = "L118"
  /\ locale' = IF LocaleOf(kw[c].recipient) = "" THEN locale
               ELSE LocaleOf(kw[c].recipient)
  /\ activator' = IF LocaleOf(kw[c].recipient) = "" THEN activator ELSE c
  /\ pc' = [pc EXCEPT ![c] = "L122"]
  /\ UNCHANGED << alerts, written, LOCALE, store, now, calls, frame, kw, payload, metadata,
                  response, result, hist >>

\* line 122: compose the payload; a template that fails to render raises
Compose(c) ==
  /\ pc[c] = "L122"
  /\ IF ComposeRaises(kw[c])
       THEN /\ ExitSend(c, Raised("TemplateError"))
            /\ UNCHANGED << payload, hist >>
       ELSE /\ payload' = [payload EXCEPT
                             ![c] = SetMethodPayload(kw[c], locale)]
            /\ hist' = [hist EXCEPT ![c].under = locale, ![c].by = activator]
            /\ pc' = [pc EXCEPT ![c] = "L125"]
            /\ UNCHANGED result
  /\ UNCHANGED << alerts, activator, written, locale, LOCALE, store, now, calls, frame, kw, metadata,
                  response >>

\* lines 125-127: the metadata for the stored row
Metadata(c) ==
  /\ pc[c] = "L125"
  /\ metadata' = [metadata EXCEPT ![c] = FormMetadata(kw[c].metadata)]
  /\ pc' = [pc EXCEPT ![c] = "L130"]
  /\ UNCHANGED << alerts, activator, written, locale, LOCALE, store, now, calls, frame, kw, payload,
                  response, result, hist >>

\* set_initial_locale() that leaves the active language as it is
SetInitialLocaleKept(c) == locale

\* set_initial_locale(): activate self.LOCALE unless it is active already
SetInitialLocale(c) == IF LOCALE[c] = locale THEN locale ELSE LOCALE[c]

\* lines 130-131: with a recipient, restore the language
Restore(c) ==
  /\ pc[c] = "L130"
  /\ locale' = IF kw[c].recipient # "" THEN SetInitialLocale(c) ELSE locale
  /\ activator' = IF locale' # locale THEN c ELSE activator
  /\ pc' = [pc EXCEPT ![c] = "L133"]
  /\ UNCHANGED << alerts, written, LOCALE, store, now, calls, frame, kw, payload, metadata,
                  response, result, hist >>

\* The no-send test without its recipient clause
NoSendOnDump(c) == kw[c].dump

\* line 133: the no-send path
NoSend(c) == kw[c].dump \/ Get(payload[c], "recipient", "") = ""

\* lines 133-134
Decide(c) ==
  /\ pc[c] = "L133"
  /\ IF NoSend(c)
       THEN ExitSend(c, Returned("payload", payload[c]))
       ELSE /\ pc' = [pc EXCEPT ![c] = "L139"]
            /\ UNCHANGED result
  /\ UNCHANGED << alerts, activator, written, locale, LOCALE, store, now, calls, frame, kw, payload,
                  metadata, response, hist >>

\* line 139, the remote service accepts the notification
PostOk(c) ==
  /\ pc[c] = "L139"
  /\ \E id \in Ids :
       response' = [response EXCEPT
                      ![c] = RemoteNotification(payload[c], id)]
  /\ hist' = [hist EXCEPT ![c].posts = @ + 1]
  /\ pc' = [pc EXCEPT ![c] = "L140"]
  /\ UNCHANGED << alerts, activator, written, locale, LOCALE, store, now, calls, frame, kw, payload,
                  metadata, result >>

\* send without the suppress block: every exception propagates
SendOnErrorRaise(e) == Raised(e)

\* What send does with an exception of make_request: suppress(ValidationError)
\* swallows a validation failure and send returns None; any other propagates
SendOnError(e) == IF e = "ValidationError" THEN ReturnedNone ELSE Raised(e)

\* line 139, the request fails
PostFails(c) ==
  /\ pc[c] = "L139"
  /\ \E e \in {"ValidationError", "TransportError"} :
       /\ ExitSend(c, SendOnError(e))
       /\ hist' = [hist EXCEPT ![c].posts = @ + 1, ![c].err = e]
  /\ UNCHANGED << alerts, activator, written, locale, LOCALE, store, now, calls, frame, kw, payload,
                  metadata, response >>

\* Line 140 returning without the call of _save
SaveSkipped(c) ==
  /\ pc[c] = "L140"
  /\ ExitSend(c, ReturnedNone)
  /\ UNCHANGED << alerts, activator, written, locale, LOCALE, store, now,
                  calls, frame, kw, payload, metadata, response, hist >>

\* line 140: _save(response=response, metadata=metadata) and return its row
Save(c) ==
  /\ pc[c] = "L140"
  /\ LET data == SaveOutput(response[c], metadata[c], now, now + 1)
     IN /\ store' = Upsert(store, data)
        /\ ExitSend(c, Returned("record", data))
  /\ now' = now + 2
  /\ hist' = [hist EXCEPT ![c].saves = Append(@, response[c])]
  /\ written' = Append(written, [response |-> response[c],
                                  metadata |-> metadata[c], at |-> now])
  /\ UNCHANGED << alerts, activator, locale, LOCALE, calls, frame, kw, payload, metadata,
                  response >>

\* The steps of send
SendStep(c) ==
  \/ SaveLocale(c)
  \/ SetLocale(c)
  \/ Compose(c)
  \/ Metadata(c)
  \/ Restore(c)
  \/ Decide(c)
  \/ PostOk(c)
  \/ PostFails(c)
  \/ Save(c)

\* ------------------------------------------------------------------------
\* bulk_send(notifications)

\* The notifications a successful bulk POST answers: the first n of the
\* batch, the k-th under the id ids[k]
RemoteNotifications(batch, ids, n) ==
  [k \in 1..n |-> RemoteNotification(batch[k], ids[k])]

\* Control enters bulk_send with the list `batch`, from frame f and history h
EnterBulk(c, f, h, batch) ==
  /\ frame' = [frame EXCEPT ![c] = [f EXCEPT !.batch = batch,
                                             !.notifications = << >>,
                                             !.elements = << >>, !.j = 0]]
  /\ hist' = [hist EXCEPT ![c] = [CallHist(h) EXCEPT
                                    !.bulks = Append(@, batch)]]
  /\ pc' = [pc EXCEPT ![c] = "B150"]
  /\ response' = [response EXCEPT ![c] = EmptyDict]
  /\ result' = [result EXCEPT ![c] = NoResult]

\* bulk_send leaves with outcome r
ExitBulk(c, r) ==
  /\ pc' = [pc EXCEPT ![c] = "bulk_exit"]
  /\ result' = [result EXCEPT ![c] = r]

\* A caller calls bulk_send
CallBulk(c, B) ==
  /\ pc[c] = "idle"
  /\ calls < MaxCalls
  /\ \E b \in B : EnterBulk(c, [NoFrame EXCEPT !.op = "bulk_send"], NoHist, b)
  /\ calls' = calls + 1
  /\ UNCHANGED << alerts, activator, written, locale, LOCALE, store, now, kw, payload, metadata >>

\* lines 150-151: an empty list is answered with an empty list
BulkEmpty(c) ==
  /\ pc[c] = "B150"
  /\ IF frame[c].batch = << >>
       THEN ExitBulk(c, Returned("list", << >>))
       ELSE /\ pc' = [pc EXCEPT ![c] = "B157"]
            /\ UNCHANGED result
  /\ UNCHANGED << alerts, activator, written, locale, LOCALE, store, now, calls, frame, kw,
                  payload, metadata, response, hist >>

\* lines 157-161, the remote service accepts the batch
BulkPostOk(c) ==
  /\ pc[c] = "B157"
  /\ \E ids \in [1..Len(frame[c].batch) -> Ids], n \in 0..Len(frame[c].batch) :
       LET answer == RemoteNotifications(frame[c].batch, ids, n)
       IN /\ response' = [response EXCEPT
                            ![c] = [notifications |-> answer]]
          /\ frame' = [frame EXCEPT ![c].notifications = answer,
                                    ![c].elements = << >>, ![c].j = 1]
  /\ hist' = [hist EXCEPT ![c].posts = @ + 1]
  /\ pc' = [pc EXCEPT ![c] = "B162"]
  /\ UNCHANGED << alerts, activator, written, locale, LOCALE, store, now, calls, kw, payload,
                  metadata, result >>

\* What bulk_send does with an exception of make_request
BulkOnError(e) == IF e = "ValidationError" THEN ReturnedNone ELSE Raised(e)

\* line 157, the request fails
BulkPostFails(c) ==
  /\ pc[c] = "B157"
  /\ \E e \in {"ValidationError", "TransportError"} :
       /\ ExitBulk(c, BulkOnError(e))
       /\ hist' = [hist EXCEPT ![c].posts = @ + 1, ![c].err = e]
  /\ UNCHANGED << alerts, activator, written, locale, LOCALE, store, now, calls, frame, kw,
                  payload, metadata, response >>

\* lines 162-163: _save(response=notification) for the next notification
BulkSave(c) ==
  /\ pc[c] = "B162"
  /\ frame[c].j <= Len(frame[c].notifications)
  /\ LET notification == frame[c].notifications[frame[c].j]
         data == SaveOutput(notification, EmptyDict, now, now + 1)
     IN /\ store' = Upsert(store, data)
        /\ frame' = [frame EXCEPT ![c].elements = Append(@, data),
                                  ![c].j = @ + 1]
        /\ hist' = [hist EXCEPT ![c].saves = Append(@, notification)]
        /\ written' = Append(written, [response |-> notification,
                                        metadata |-> EmptyDict, at |-> now])
  /\ now' = now + 2
  /\ UNCHANGED << alerts, activator, locale, LOCALE, calls, pc, kw, payload, metadata,
                  response, result >>

\* line 165: return elements
BulkReturn(c) ==
  /\ pc[c] = "B162"
  /\ frame[c].j > Len(frame[c].notifications)
  /\ ExitBulk(c, Returned("list", frame[c].elements))
  /\ UNCHANGED << alerts, activator, written, locale, LOCALE, store, now, calls, frame, kw,
                  payload, metadata, response, hist >>

\* The steps of bulk_send
BulkStep(c) ==
  \/ BulkEmpty(c)
  \/ BulkPostOk(c)
  \/ BulkPostFails(c)
  \/ BulkSave(c)
  \/ BulkReturn(c)

\* ------------------------------------------------------------------------
\* Alert fan-out

\* The address's own e-mail, whether or not it has a user
AlertEmailOwn(alert) == alert.email

\* alert.user.email if alert.user else alert.email
AlertEmail(alert) ==
  IF alert.user # 0 THEN Users[alert.user].email ELSE alert.email

\* alerts_roles(roles): the users in one of the roles, in primary-key order;
\* without roles, those of the credit officer superior role.  SelectSeq keeps
\* the order of Users.
InRoles(roles) ==
  LET wanted == IF roles = {} THEN {"SY_CREDIT_OFFICER_SUPERIOR"} ELSE roles
      Member(u) == u.groups \cap wanted # {}
  IN SelectSeq(Users, Member)

\* The recipients alerting_roles loops over
RoleEmails(roles) == [i \in 1..Len(InRoles(roles)) |-> InRoles(roles)[i].email]

\* The recipients alerting and alerting_bulk loop over
AlertEmails == [i \in 1..Len(alerts) |-> AlertEmail(alerts[i])]

\* lines 233-236, 250-253, 268-271: a fan-out over the recipients `emails`
\* starts; with none it returns at once
EnterFanOut(c, op, emails, args, batch) ==
  /\ pc[c] = "idle"
  /\ calls < MaxFanOuts
  /\ calls' = calls + 1
  /\ frame' = [frame EXCEPT ![c] = [NoFrame EXCEPT !.op = op, !.i = 1,
                                      !.alerts = emails, !.args = args,
                                      !.batch = batch]]
  /\ hist' = [hist EXCEPT ![c] = [CallHist(NoHist) EXCEPT !.orig = batch]]
  /\ IF emails = << >>
       THEN /\ pc' = [pc EXCEPT ![c] = "done"]
            /\ result' = [result EXCEPT ![c] = ReturnedNone]
       ELSE /\ pc' = [pc EXCEPT ![c] = "loop"]
            /\ result' = [result EXCEPT ![c] = NoResult]
  /\ UNCHANGED << alerts, activator, written, locale, LOCALE, store, now, kw, payload, metadata,
                  response >>

\* A caller calls alerting_roles(**payload)
CallAlertingRoles(c, K, R) ==
  \E k \in K, roles \in R :
    EnterFanOut(c, "alerting_roles", RoleEmails(roles), k, << >>)

\* A caller calls alerting(**payload)
CallAlerting(c, K) ==
  \E k \in K : EnterFanOut(c, "alerting", AlertEmails, k, << >>)

\* A caller calls alerting_bulk(notifications)
CallAlertingBulk(c, B) ==
  \E b \in B : EnterFanOut(c, "alerting_bulk", AlertEmails, NoKwargs, b)

\* lines 239-241, 256-259: the next recipient is put into the payload and
\* send is called with it
AlertSend(c) ==
  /\ pc[c] = "loop"
  /\ frame[c].op \in {"alerting", "alerting_roles"}
  /\ frame[c].i <= Len(frame[c].alerts)
  /\ LET args == [frame[c].args EXCEPT
                    !.recipient = frame[c].alerts[frame[c].i]]
     IN /\ frame' = [frame EXCEPT ![c].args = args]
        /\ EnterSend(c, args)
        /\ hist' = [hist EXCEPT ![c] = [CallHist(@) EXCEPT
                                          !.sends = Append(@, args.recipient)]]
  /\ UNCHANGED << alerts, activator, written, locale, LOCALE, store, now, calls >>

\* lines 274-280: every notification of the batch gets the next recipient,
\* and bulk_send is called with the batch
Stamp(batch, email) == [k \in 1..Len(batch) |-> [batch[k] EXCEPT !.recipient = email]]

AlertBulkSend(c) ==
  /\ pc[c] = "loop"
  /\ frame[c].op = "alerting_bulk"
  /\ frame[c].i <= Len(frame[c].alerts)
  /\ EnterBulk(c, frame[c], hist[c],
               Stamp(frame[c].batch, frame[c].alerts[frame[c].i]))
  /\ UNCHANGED << alerts, activator, written, locale, LOCALE, store, now, calls, kw, payload,
                  metadata >>

\* A loop that also ends when the call returned None
AfterCallStopsOnNone(c) ==
  /\ \/ pc[c] = "send_exit" /\ frame[c].op \in {"alerting", "alerting_roles"}
     \/ pc[c] = "bulk_exit" /\ frame[c].op = "alerting_bulk"
  /\ hist' = [hist EXCEPT ![c].outs = Append(@, result[c].kind)]
  /\ IF result[c].kind \in {"raise", "None"}
       THEN /\ pc' = [pc EXCEPT ![c] = "done"]
            /\ UNCHANGED << frame, result >>
       ELSE /\ pc' = [pc EXCEPT ![c] = "loop"]
            /\ frame' = [frame EXCEPT ![c].i = @ + 1]
            /\ result' = [result EXCEPT ![c] = NoResult]
  /\ UNCHANGED << alerts, activator, written, locale, LOCALE, store, now,
                  calls, kw, payload, metadata, response >>

\* The loop takes what the call it made handed back: an exception ends the
\* fan-out and reaches its caller, a return value is dropped
AfterCall(c) ==
  /\ \/ pc[c] = "send_exit" /\ frame[c].op \in {"alerting", "alerting_roles"}
     \/ pc[c] = "bulk_exit" /\ frame[c].op = "alerting_bulk"
  /\ hist' = [hist EXCEPT ![c].outs = Append(@, result[c].kind)]
  /\ IF result[c].kind = "raise"
       THEN /\ pc' = [pc EXCEPT ![c] = "done"]
            /\ UNCHANGED << frame, result >>
       ELSE /\ pc' = [pc EXCEPT ![c] = "loop"]
            /\ frame' = [frame EXCEPT ![c].i = @ + 1]
            /\ result' = [result EXCEPT ![c] = NoResult]
  /\ UNCHANGED << alerts, activator, written, locale, LOCALE, store, now, calls, kw, payload,
                  metadata, response >>

\* lines 243, 261, 282: after the last recipient the fan-out returns None
FanOutReturn(c) ==
  /\ pc[c] = "loop"
  /\ frame[c].i > Len(frame[c].alerts)
  /\ pc' = [pc EXCEPT ![c] = "done"]
  /\ result' = [result EXCEPT ![c] = ReturnedNone]
  /\ UNCHANGED << alerts, activator, written, locale, LOCALE, store, now, calls, frame, kw,
                  payload, metadata, response, hist >>

\* The steps of the fan-out loops
FanOutStep(c) ==
  \/ AlertSend(c)
  \/ AlertBulkSend(c)
  \/ AfterCall(c)
  \/ FanOutReturn(c)

\* The caller takes the outcome of its top-level call
Finish(c) ==
  /\ \/ pc[c] = "send_exit" /\ frame[c].op = "send"
     \/ pc[c] = "bulk_exit" /\ frame[c].op = "bulk_send"
     \/ pc[c] = "done"
  /\ pc' = [pc EXCEPT ![c] = "idle"]
  /\ frame' = [frame EXCEPT ![c] = NoFrame]
  /\ kw' = [kw EXCEPT ![c] = NoKwargs]
  /\ payload' = [payload EXCEPT ![c] = EmptyDict]
  /\ metadata' = [metadata EXCEPT ![c] = EmptyDict]
  /\ response' = [response EXCEPT ![c] = EmptyDict]
  /\ result' = [result EXCEPT ![c] = NoResult]
  /\ hist' = [hist EXCEPT ![c] = NoHist]
  /\ UNCHANGED << alerts, activator, written, locale, LOCALE, store, now, calls >>

\* What the single caller sends: every recipient with and without the dump
\* flag; every body source and metadata for a recipient with a locale and for
\* the empty recipient; the other delivery methods, with a sender
SendRequests ==
  Kwargs(Recipients, BOOLEAN, {"email"}, {BodyHtml}, {EmptyDict}, {""})
  \cup Kwargs({"a@x.com", ""}, {FALSE}, {"email"}, {BodyText, BodyBad},
              {EmptyDict, [title |-> "T"]}, {""})
  \cup Kwargs({"+100"}, BOOLEAN, {"sms", "push"}, {BodyRaw}, {EmptyDict},
              {"b@x.com"})

\* A notification of a bulk_send batch
Notification(recipient, method, body) ==
  [is_internal_recipient |-> FALSE, recipient |-> recipient,
   delivery_method |-> method, message_subject |-> "Hi",
   message_body |-> body]

\* The lists the single caller passes to bulk_send
Batches ==
  { << >>,
    << Notification("a@x.com", "email", "Raw") >>,
    << Notification("a@x.com", "email", "Raw"),
       Notification("a@x.com", "email", "Text") >>,
    << Notification("+100", "sms", "Raw"),
       Notification("a@x.com", "email", "Raw") >> }

\* Payloads of the alert fan-outs
AlertRequests ==
  Kwargs({""}, {FALSE}, {"email"}, {BodyHtml, BodyBad}, {EmptyDict}, {""})

RoleSets == { {}, {"ADMIN"}, {"AUDITOR"} }

AlertBatches ==
  { << Notification("", "email", "Raw") >>,
    << Notification("", "email", "Raw"), Notification("z@x.com", "sms", "Text") >> }

\* What two concurrent callers send
ConcRequests ==
  Kwargs({"a@x.com", "c@x.com"}, {FALSE}, {"email"}, {BodyHtml}, {EmptyDict},
         {""})

ConcBatches == { << Notification("a@x.com", "email", "Raw") >> }

\* One caller, one call at a time: send and bulk_send
Next ==
  \/ CallSend("A", SendRequests)
  \/ CallBulk("A", Batches)
  \/ SendStep("A")
  \/ BulkStep("A")
  \/ Finish("A")

Spec == Init /\ [][Next]_vars

\* One caller, one call at a time: the alert fan-outs
NextAlert ==
  \/ CallAlertingRoles("A", AlertRequests, RoleSets)
  \/ CallAlerting("A", AlertRequests)
  \/ CallAlertingBulk("A", AlertBatches)
  \/ FanOutStep("A")
  \/ SendStep("A")
  \/ BulkStep("A")
  \/ Finish("A")

SpecAlert == InitAlert /\ [][NextAlert]_vars

\* Two callers whose calls interleave, on one language context and one table
NextConc ==
  \E c \in Callers :
    \/ CallSend(c, ConcRequests)
    \/ CallBulk(c, ConcBatches)
    \/ SendStep(c)
    \/ BulkStep(c)
    \/ Finish(c)

SpecConc == InitConc /\ [][NextConc]_vars


\* ------------------------------------------------------------------------
\* Properties

\* The positions of send
InSend(c) ==
  pc[c] \in {"L113", "L118", "L122", "L125", "L130", "L133", "L139", "L140",
             "send_exit"}

\* send has returned, not raised
SendReturned(c) == pc[c] = "send_exit" /\ result[c].kind # "raise"

\* C1: with a single caller, a send that returns leaves the language that was
\* active when it was entered; the language differs from that one only after
\* the switch and before the restore, where it is the recipient's, so it is
\* restored at the no-send test, at the POST and at the upsert.
C1_LocaleRestoredOnReturn ==
  \A c \in Callers :
    /\ SendReturned(c) => locale = hist[c].entry
    /\ pc[c] \in {"L133", "L139", "L140"} => locale = hist[c].entry
    /\ (InSend(c) /\ ~(pc[c] = "send_exit" /\ result[c].kind = "raise")
        /\ locale # hist[c].entry)
         => /\ pc[c] \in {"L122", "L125", "L130"}
            /\ locale = LocaleOf(kw[c].recipient)

\* C1's case: a send to the user whose locale is fr, entered under en and
\* composed under fr, has posted, upserted and returned under en.
C1_Witness ==
  /\ SendReturned("A")
  /\ kw["A"].recipient = "a@x.com"
  /\ hist["A"].entry = "en"
  /\ hist["A"].under = "fr"
  /\ result["A"].kind = "record"
  /\ locale = "en"

\* C10: at every exit of send, the raising ones included, the active language
\* is the one that was active at entry.
C10_LocaleRestoredOnEveryExit ==
  \A c \in Callers : pc[c] = "send_exit" => locale = hist[c].entry

\* C2: a send with the dump flag or with an empty recipient makes no POST and
\* no upsert and never reaches lines 139-140; when it returns, it returns the
\* payload it composed, and its only other exit is the exception of the
\* composition itself.
C2_NoSendPath ==
  \A c \in Callers :
    (InSend(c) /\ (kw[c].dump \/ kw[c].recipient = ""))
      => /\ hist[c].posts = 0
         /\ hist[c].saves = << >>
         /\ store = hist[c].before
         /\ pc[c] \notin {"L139", "L140"}
         /\ pc[c] = "send_exit"
              => \/ /\ result[c].kind = "payload"
                    /\ result[c].value = payload[c]
                    /\ payload[c] = SetMethodPayload(kw[c], hist[c].under)
                 \/ /\ ComposeRaises(kw[c])
                    /\ result[c].kind = "raise"
                    /\ result[c].value = "TemplateError"

\* C2's case: a send with an empty recipient and no dump flag has returned its
\* payload, the table holding a row of an earlier call.
C2_Witness ==
  /\ pc["A"] = "send_exit"
  /\ kw["A"].recipient = ""
  /\ ~kw["A"].dump
  /\ result["A"].kind = "payload"
  /\ result["A"].value.recipient = ""
  /\ store # {}

\* send or bulk_send has left
Exited(c) == pc[c] \in {"send_exit", "bulk_exit"}

\* C3: when the remote service answers the POST of send or of bulk_send with
\* a validation failure, the call returns None, raises nothing, and the table
\* is as it was when the call was entered.
C3_ValidationFailureSuppressed ==
  \A c \in Callers :
    (Exited(c) /\ hist[c].err = "ValidationError")
      => /\ result[c].kind = "None"
         /\ store = hist[c].before
         /\ hist[c].saves = << >>

\* C3's case: a bulk_send of two notifications was rejected, a row of an
\* earlier call being in the table.
C3_Witness ==
  /\ pc["A"] = "bulk_exit"
  /\ hist["A"].err = "ValidationError"
  /\ Len(frame["A"].batch) = 2
  /\ store # {}

\* C5: send makes at most one POST and at most one upsert, the upsert only
\* after its POST succeeded, and a send whose POST succeeded has made one
\* upsert and returns the row upserted.  bulk_send makes no upsert before its
\* POST succeeded, then one per notification of the answer, in the answer's
\* order, and returns as many rows.
C5_OneUpsertPerDispatch ==
  \A c \in Callers :
    /\ InSend(c)
         => /\ hist[c].posts <= 1
            /\ Len(hist[c].saves) <= 1
            /\ hist[c].saves # << >> => hist[c].posts = 1 /\ hist[c].err = ""
            /\ pc[c] = "L140" => hist[c].saves = << >>
            /\ (pc[c] = "send_exit" /\ hist[c].posts = 1 /\ hist[c].err = "")
                 => /\ hist[c].saves = << response[c] >>
                    /\ result[c].kind = "record"
                    /\ result[c].value.data = response[c]
                    /\ result[c].value \in store
    /\ pc[c] \in {"B150", "B157", "B162", "bulk_exit"}
         => /\ hist[c].posts <= 1
            /\ hist[c].saves # << >> => hist[c].posts = 1 /\ hist[c].err = ""
            /\ pc[c] = "B162"
                 => hist[c].saves = SubSeq(frame[c].notifications, 1,
                                            frame[c].j - 1)
            /\ (pc[c] = "bulk_exit" /\ hist[c].posts = 1 /\ hist[c].err = "")
                 => /\ hist[c].saves = frame[c].notifications
                    /\ result[c].kind = "list"
                    /\ Len(result[c].value) = Len(frame[c].notifications)
                    /\ \A k \in 1..Len(result[c].value) :
                         result[c].value[k].data = frame[c].notifications[k]

\* C5's case: a bulk_send has upserted the two different notifications of the
\* answer and returned.
C5_Witness ==
  /\ pc["A"] = "bulk_exit"
  /\ Len(hist["A"].saves) = 2
  /\ hist["A"].saves[1] # hist["A"].saves[2]
  /\ Len(result["A"].value) = 2


\* The triple of a stored row
Triple(r) == << r.code_name, r.type, r.target_id >>

\* The triple a response maps to: its id, its delivery method in upper case,
\* the user its recipient resolves to under that method
KeyOf(resp) ==
  << Get(resp, "id", ""),
     Upper(Get(resp, "delivery_method", "email")),
     GetUserBy(Upper(Get(resp, "delivery_method", "email")),
               Get(resp, "recipient", "")) >>

\* The rows stored under the triple of the i-th write
RowsOf(i) == {r \in store : Triple(r) = KeyOf(written[i].response)}

\* No later write maps to the triple of the i-th write
LastWrite(i) ==
  \A j \in (i + 1)..Len(written) :
    KeyOf(written[j].response) # KeyOf(written[i].response)

\* Row r holds the fields of write w
HoldsWrite(r, w) ==
  /\ r.title = Get(w.response, "message_subject", "")
  /\ r.description = Get(w.response, "message_body", "")
  /\ r.data = w.response
  /\ r.metadata = w.metadata
  /\ r.timestamp = w.at
  /\ r.edited_timestamp = w.at + 1
  /\ r.status = "NOTIFIED"

\* C4: whatever was persisted, no two stored rows share (code_name, type,
\* target_id), and the triple of every response persisted has exactly one
\* row, which holds the fields of the last response persisted under it.
C4_OneRowPerTriple ==
  /\ \A r1 \in store, r2 \in store : Triple(r1) = Triple(r2) => r1 = r2
  /\ \A i \in 1..Len(written) :
       LastWrite(i)
         => /\ Cardinality(RowsOf(i)) = 1
            /\ \A r \in RowsOf(i) : HoldsWrite(r, written[i])

\* C4's case: two different responses with one id, method and resolved
\* target were persisted, and the table holds the one row of the second.
C4_Witness ==
  /\ Len(written) = 2
  /\ KeyOf(written[1].response) = KeyOf(written[2].response)
  /\ written[1].response # written[2].response
  /\ Cardinality(store) = 1
  /\ \A r \in store : r.data = written[2].response

C8_ForeignLocaleIsAnotherCallers ==
  \A b \in Callers :
    (InSend(b) /\ hist[b].under # ""
       /\ LocaleOf(kw[b].recipient) # ""
       /\ hist[b].under # LocaleOf(kw[b].recipient))
      => hist[b].by \in Callers \ {b}

\* C8's case: B, whose recipient's locale is de, has composed its payload in
\* French, the locale A activated for its recipient and has not yet restored.
C8_Witness ==
  /\ pc["B"] = "L125"
  /\ pc["A"] \in {"L122", "L125", "L130"}
  /\ kw["A"].recipient = "a@x.com"
  /\ kw["B"].recipient = "c@x.com"
  /\ hist["B"].under = "fr"
  /\ hist["B"].by = "A"
  /\ payload["B"].message_body = "Bonjour"

\* An alert fan-out through send
InAlerting(c) == frame[c].op \in {"alerting", "alerting_roles"}

\* C6 as stated: whatever the failure of a send, the fan-out sends to every
\* alert recipient and its caller sees no failure.
C6_NoFailureHaltsFanOut ==
  \A c \in Callers :
    (InAlerting(c) /\ pc[c] = "done")
      => /\ Len(hist[c].sends) = Len(frame[c].alerts)
         /\ result[c].kind # "raise"

\* C6 amended: a send the remote service rejects with a validation failure
\* returns None and the loop goes on to the next recipient; a fan-out that
\* returns has sent to every recipient; a fan-out raises only what its last
\* send raised, which is never a validation failure, and sends to nobody
\* after it.
C6_ValidationFailureDoesNotHalt ==
  \A c \in Callers :
    (InAlerting(c) /\ pc[c] = "done")
      => /\ Len(hist[c].outs) = Len(hist[c].sends)
         /\ \A i \in 1..Len(hist[c].outs) :
              (hist[c].outs[i] # "raise" /\ i < Len(frame[c].alerts))
                => Len(hist[c].sends) > i
         /\ result[c].kind # "raise"
              => /\ Len(hist[c].sends) = Len(frame[c].alerts)
                 /\ \A i \in 1..Len(hist[c].outs) : hist[c].outs[i] # "raise"
         /\ result[c].kind = "raise"
              => /\ result[c].value \in {"TransportError", "TemplateError"}
                 /\ hist[c].outs[Len(hist[c].outs)] = "raise"
                 /\ \A i \in 1..(Len(hist[c].outs) - 1) :
                      hist[c].outs[i] # "raise"

\* C6's case: the send to the first of two alert addresses was rejected with
\* a validation failure, the second was sent and stored, the fan-out returned.
C6_Witness ==
  /\ pc["A"] = "done"
  /\ frame["A"].op = "alerting"
  /\ Len(frame["A"].alerts) = 2
  /\ hist["A"].outs = << "None", "record" >>
  /\ Len(hist["A"].sends) = 2
  /\ result["A"].kind = "None"

\* The e-mail of the i-th configured alert address: its user's when it has a
\* user, else its own
ResolvedEmail(i) ==
  IF alerts[i].user # 0 THEN Users[alerts[i].user].email ELSE alerts[i].email

====
